---------------------------- MODULE Spec2Model ----------------------------
(***************************************************************************)
(* Model of gryf/pythonhelper: the tag parsers, the per-buffer tag caches  *)
(* and the nearest-tag resolution of                                       *)
(*   src/plugin/pythonhelper.py          (SimplePythonTagsParser, get_tags,*)
(*                                        find_tag, delete_tags)           *)
(*   src/ftplugin/python/pythonhelper.py (EvenSimplerPythonTagsParser,     *)
(*                                        PythonHelper)                    *)
(*                                                                         *)
(* A source line is a sequence of one-character strings.  A dict is a      *)
(* function whose DOMAIN is its key set.  A PythonTag is a record; None is *)
(* the string "None", and the record NoTag where a tag is expected.        *)
(***************************************************************************)
EXTENDS Integers, Sequences, FiniteSets, TLC

VARIABLES
    buffer,               \* vim.current.buffer: the lines of the current buffer
    cursor,               \* vim.current.window.cursor[0]: 1-based cursor row
    TAGS,                 \* plugin: buffer number -> {line number -> PythonTag}
    TAGLINENUMBERS,       \* plugin: buffer number -> list of tag line numbers
    BUFFERTICKS,          \* plugin: buffer number -> changed tick
    PythonHelper_TAGS,    \* ftplugin: PythonHelper.TAGS
    PHStatusLine,         \* w:PHStatusLine, w:PHStatusLineTag, w:PHStatusLineType
    call,                 \* the last call made by the host, with its outcome
    resolution,           \* the locals the last find_tag ended with
    parser,               \* which parser object a scan runs ("None": no scan)
    line_number,          \* number of source lines the running scan has consumed
    tag_line_numbers,     \* the running scan's tag_line_numbers (plugin)
    tags,                 \* the running scan's tags dict
    tags_stack            \* the running scan's stack of open tags

vars == <<buffer, cursor, TAGS, TAGLINENUMBERS, BUFFERTICKS, PythonHelper_TAGS,
          PHStatusLine, call, resolution, parser, line_number, tag_line_numbers,
          tags, tags_stack>>

hostVars   == <<buffer, cursor>>
pluginVars == <<TAGS, TAGLINENUMBERS, BUFFERTICKS>>
scanVars   == <<parser, line_number, tag_line_numbers, tags, tags_stack>>

-----------------------------------------------------------------------------
(* Bounds of the model *)

\* longest buffer, in lines
MaxLines == 4
\* buffer numbers are 1..MaxBuf
MaxBuf == 2
\* changed ticks are 1..MaxTick
MaxTick == 2

-----------------------------------------------------------------------------
(* Strings and dicts *)

None == "None"

\* None where a PythonTag is expected
NoTag == [tag_type |-> "None"]

WS == {" ", "\t"}

\* the part of s from index i (1-based) to its end
Tail_(s, i) == SubSeq(s, i, Len(s))

\* length of the longest prefix of s made of characters of set
SpanIn(s, set) ==
    CHOOSE n \in 0..Len(s) :
        /\ \A i \in 1..n : s[i] \in set
        /\ n = Len(s) \/ s[n + 1] \notin set

\* length of the longest prefix of s made of characters outside set
SpanNotIn(s, set) ==
    CHOOSE n \in 0..Len(s) :
        /\ \A i \in 1..n : s[i] \notin set
        /\ n = Len(s) \/ s[n + 1] \in set

StartsWith(s, p) == Len(s) >= Len(p) /\ SubSeq(s, 1, Len(p)) = p

\* str.strip() is non-empty: some character is not white space
Strip(s) == \E i \in 1..Len(s) : s[i] \notin WS

\* full_name.split(".")[-1]
LastComponent(s) ==
    LET dots == {i \in 1..Len(s) : s[i] = "."}
    IN  IF dots = {} THEN s
        ELSE Tail_(s, (CHOOSE i \in dots : \A j \in dots : j <= i) + 1)

\* len(s.split("."))
NumComponents(s) == Cardinality({i \in 1..Len(s) : s[i] = "."}) + 1

EmptyDict == << >>

DictSet(d, k, v) == [x \in (DOMAIN d) \cup {k} |-> IF x = k THEN v ELSE d[x]]

DictGet(d, k, default) == IF k \in DOMAIN d THEN d[k] ELSE default

\* del d[k]: raises KeyError when k is no key of d
DictDel(d, k) ==
    IF k \in DOMAIN d
    THEN [dict |-> [x \in (DOMAIN d) \ {k} |-> d[x]], raised |-> None]
    ELSE [dict |-> d, raised |-> "KeyError"]

-----------------------------------------------------------------------------
(* src/plugin/pythonhelper.py: PythonTag and SimplePythonTagsParser *)

PythonTag(tag_type, name, full_name, line_no, indent_level) ==
    [tag_type |-> tag_type, name |-> name, full_name |-> full_name,
     line_number |-> line_no, indent_level |-> indent_level]

TABSIZE == 8

\* COMMENTS_INDENT_RE = '([ \t]*)([^\n#]*).*' matched at the start of line
COMMENTS_INDENT_RE(line) ==
    LET n    == SpanIn(line, WS)
        rest == Tail_(line, n + 1)
        m    == SpanNotIn(rest, {"\n", "#"})
    IN  [group1 |-> SubSeq(line, 1, n), group2 |-> SubSeq(rest, 1, m)]

\* keyword[ \t]+([^excl]+).* matched at the start of s; the greedy [ \t]+
\* gives its last character back when nothing else is left for the name
KeywordMatch(s, keyword, excl) ==
    IF ~StartsWith(s, keyword) THEN [matched |-> FALSE, group1 |-> <<>>]
    ELSE LET after == Tail_(s, Len(keyword) + 1)
             n     == SpanIn(after, WS)
             r     == Tail_(after, n + 1)
             m     == SpanNotIn(r, excl)
         IN  IF n >= 1 /\ m >= 1
             THEN [matched |-> TRUE, group1 |-> SubSeq(r, 1, m)]
             ELSE IF n >= 2
             THEN [matched |-> TRUE, group1 |-> <<after[n]>>]
             ELSE [matched |-> FALSE, group1 |-> <<>>]

\* CLASS_RE = 'class[ \t]+([^(:]+).*'
CLASS_RE(s) == KeywordMatch(s, <<"c", "l", "a", "s", "s">>, {"(", ":"})

\* METHOD_RE = 'def[ \t]+([^(]+).*'
METHOD_RE(s) == KeywordMatch(s, <<"d", "e", "f">>, {"("})

RECURSIVE compute_indentation_level(_)
compute_indentation_level(indent_chars) ==
    IF indent_chars = <<>> THEN 0
    ELSE (IF Head(indent_chars) = "\t" THEN TABSIZE ELSE 1)
         + compute_indentation_level(Tail(indent_chars))

get_parent_tag(stack) ==
    IF Len(stack) > 0 THEN stack[Len(stack)] ELSE NoTag

tag_class_type_deciding_method(parent_tag_type) == "class"

\* faulty variant of tag_function_type_deciding_method: any parent makes a
\* method
tag_function_type_deciding_method_AnyParent(parent_tag_type) ==
    IF parent_tag_type # None THEN "method" ELSE "function"

tag_function_type_deciding_method(parent_tag_type) ==
    IF parent_tag_type = "class" THEN "method" ELSE "function"

tag_type_deciding_method(decl, parent_tag_type) ==
    IF decl = "class"
    THEN tag_class_type_deciding_method(parent_tag_type)
    ELSE tag_function_type_deciding_method(parent_tag_type)

\* faulty variant of PopClosed: pops on '>' instead of '>=', so a sibling
\* stays open
RECURSIVE PopClosed_StrictOnly(_, _)
PopClosed_StrictOnly(stack, indent_level) ==
    IF Len(stack) > 0 /\ stack[Len(stack)].indent_level > indent_level
    THEN PopClosed_StrictOnly(SubSeq(stack, 1, Len(stack) - 1), indent_level)
    ELSE stack

\* faulty variant of PopClosed: 'if' instead of 'while', only the top tag is
\* dropped
PopClosed_OnlyTop(stack, indent_level) ==
    IF Len(stack) > 0 /\ stack[Len(stack)].indent_level >= indent_level
    THEN SubSeq(stack, 1, Len(stack) - 1)
    ELSE stack

\* the 'del tags_stack[-1]' loop of get_python_tag: drops every open tag
\* whose indent_level is >= indent_level, from the top
RECURSIVE PopClosed(_, _)
PopClosed(stack, indent_level) ==
    IF Len(stack) > 0 /\ stack[Len(stack)].indent_level >= indent_level
    THEN PopClosed(SubSeq(stack, 1, Len(stack) - 1), indent_level)
    ELSE stack

\* faulty variant of FullName: the parent's full_name is left out
FullName_NoParent(parent_tag, tag_name) == tag_name

\* the full_name get_python_tag gives a tag under parent_tag
FullName(parent_tag, tag_name) ==
    IF parent_tag = NoTag THEN tag_name
    ELSE parent_tag.full_name \o <<".">> \o tag_name

\* returns the new tag and the modified tags_stack
get_python_tag(stack, line_no, indent_chars, tag_name, decl) ==
    LET indent_level == compute_indentation_level(indent_chars)
        open         == PopClosed(stack, indent_level)
        parent_tag   == get_parent_tag(open)
        tag  == IF parent_tag # NoTag
                THEN PythonTag(tag_type_deciding_method(decl, parent_tag.tag_type),
                               tag_name, FullName(parent_tag, tag_name),
                               line_no, indent_level)
                ELSE PythonTag(tag_type_deciding_method(decl, None),
                               tag_name, FullName(NoTag, tag_name),
                               line_no, indent_level)
    IN  [tag |-> tag, tags_stack |-> Append(open, tag)]

\* vim_buffer_iterator: every line of the buffer with "\n" appended
vim_buffer_iterator(line) == line \o <<"\n">>

\* faulty variant of ScanLine: a 'def' tag is stored in tags but its line is
\* not appended to tag_line_numbers
ScanLine_DefNotListed(st, line, line_no) ==
    LET line_match   == COMMENTS_INDENT_RE(vim_buffer_iterator(line))
        line_content == line_match.group2
        class_match  == CLASS_RE(line_content)
        def_match    == METHOD_RE(line_content)
        found(decl, tag_name) ==
            LET r == get_python_tag(st.tags_stack, line_no, line_match.group1,
                                    tag_name, decl)
            IN  [tag_line_numbers |-> IF decl = "def" THEN st.tag_line_numbers
                                      ELSE Append(st.tag_line_numbers, line_no),
                 tags             |-> DictSet(st.tags, line_no, r.tag),
                 tags_stack       |-> r.tags_stack]
    IN  IF class_match.matched THEN found("class", class_match.group1)
        ELSE IF def_match.matched THEN found("def", def_match.group1)
        ELSE st

\* one iteration of the loop of SimplePythonTagsParser.get_tags over the
\* scan state st = [tag_line_numbers, tags, tags_stack]
ScanLine(st, line, line_no) ==
    LET line_match   == COMMENTS_INDENT_RE(vim_buffer_iterator(line))
        line_content == line_match.group2
        class_match  == CLASS_RE(line_content)
        def_match    == METHOD_RE(line_content)
        found(decl, tag_name) ==
            LET r == get_python_tag(st.tags_stack, line_no, line_match.group1,
                                    tag_name, decl)
            IN  [tag_line_numbers |-> Append(st.tag_line_numbers, line_no),
                 tags             |-> DictSet(st.tags, line_no, r.tag),
                 tags_stack       |-> r.tags_stack]
    IN  IF class_match.matched THEN found("class", class_match.group1)
        ELSE IF def_match.matched THEN found("def", def_match.group1)
        ELSE st

ScanStart == [tag_line_numbers |-> <<>>, tags |-> EmptyDict, tags_stack |-> <<>>]

RECURSIVE ScanFrom(_, _, _)
ScanFrom(st, source, n) ==
    IF n = 0 THEN st
    ELSE ScanLine(ScanFrom(st, source, n - 1), source[n], n)

\* SimplePythonTagsParser(source).get_tags(): (tag_line_numbers, tags)
SimplePythonTagsParser_get_tags(source) ==
    LET st == ScanFrom(ScanStart, source, Len(source))
    IN  <<st.tag_line_numbers, st.tags>>

-----------------------------------------------------------------------------
(* src/ftplugin/python/pythonhelper.py: PythonTag and                      *)
(* EvenSimplerPythonTagsParser                                             *)

FtPythonTag(tag_type, full_name, line_no, indent_level) ==
    [tag_type |-> tag_type, name |-> LastComponent(full_name),
     full_name |-> full_name, line_number |-> line_no,
     indent_level |-> indent_level]

\* RE_TAG_TYPE = r'\s*(def|class)[ \t]+([^(:]+).*' matched at the start of
\* line: group1 is the keyword, group2 the name
RE_TAG_TYPE(line) ==
    LET s   == Tail_(line, SpanIn(line, WS) + 1)
        def == KeywordMatch(s, <<"d", "e", "f">>, {"(", ":"})
        cls == KeywordMatch(s, <<"c", "l", "a", "s", "s">>, {"(", ":"})
    IN  IF def.matched
        THEN [matched |-> TRUE, group1 |-> "def", group2 |-> def.group1]
        ELSE IF cls.matched
        THEN [matched |-> TRUE, group1 |-> "class", group2 |-> cls.group1]
        ELSE [matched |-> FALSE, group1 |-> None, group2 |-> <<>>]

\* RE_INDENT = r'([ \t]*).*': len(RE_INDENT.match(line).group(1))
get_indent_level(line) == SpanIn(line, WS)

\* faulty variant of FtPopLoop: pops on '>' instead of '>=', so a sibling
\* stays open
RECURSIVE FtPopLoop_StrictOnly(_, _, _)
FtPopLoop_StrictOnly(stack, indent_level, n) ==
    IF n = 0 THEN stack
    ELSE LET popped == IF Len(stack) > 0
                          /\ stack[Len(stack)].indent_level > indent_level
                       THEN SubSeq(stack, 1, Len(stack) - 1)
                       ELSE stack
         IN  IF Len(popped) = 0 THEN popped
             ELSE FtPopLoop_StrictOnly(popped, indent_level, n - 1)

\* 'for _ in range(len(tags_stack))' with n iterations left: pop the top
\* when it is indented at or beyond indent_level, leave when the stack is
\* empty
RECURSIVE FtPopLoop(_, _, _)
FtPopLoop(stack, indent_level, n) ==
    IF n = 0 THEN stack
    ELSE LET popped == IF Len(stack) > 0
                          /\ stack[Len(stack)].indent_level >= indent_level
                       THEN SubSeq(stack, 1, Len(stack) - 1)
                       ELSE stack
         IN  IF Len(popped) = 0 THEN popped
             ELSE FtPopLoop(popped, indent_level, n - 1)

Ft_get_tag_type(tag, stack) ==
    IF tag.tag_type = "class" THEN "class"
    ELSE IF Len(stack) > 0 /\ stack[Len(stack)].tag_type = "class"
    THEN "method"
    ELSE "function"

Ft_get_full_name(stack, name) ==
    IF Len(stack) > 0 THEN stack[Len(stack)].full_name \o <<".">> \o name
    ELSE name

\* one iteration of the loop of EvenSimplerPythonTagsParser.get_tags;
\* line_no is the 0-based index enumerate() gives
FtScanLine(st, line, line_no) ==
    LET tag_match == RE_TAG_TYPE(line)
    IN  IF ~tag_match.matched THEN st
        ELSE LET indent_level == get_indent_level(line)
                 open == FtPopLoop(st.tags_stack, indent_level,
                                   Len(st.tags_stack))
                 new  == FtPythonTag(tag_match.group1,
                                     Ft_get_full_name(open, tag_match.group2),
                                     line_no, indent_level)
                 tag  == [new EXCEPT !.tag_type = Ft_get_tag_type(new, open)]
             IN  [tag_line_numbers |-> st.tag_line_numbers,
                  tags             |-> DictSet(st.tags, line_no, tag),
                  tags_stack       |-> Append(open, tag)]

RECURSIVE FtScanFrom(_, _, _)
FtScanFrom(st, source, n) ==
    IF n = 0 THEN st
    ELSE FtScanLine(FtScanFrom(st, source, n - 1), source[n], n - 1)

\* EvenSimplerPythonTagsParser().get_tags(): the tags dict
EvenSimplerPythonTagsParser_get_tags(source) ==
    FtScanFrom(ScanStart, source, Len(source)).tags

-----------------------------------------------------------------------------
(* src/plugin/pythonhelper.py: get_tags, get_nearest_line_index, find_tag, *)
(* delete_tags                                                             *)

\* faulty variant of NearestFrom: the first tag line at or above row is
\* kept, later ones do not replace it
RECURSIVE NearestFrom_First(_, _, _, _, _)
NearestFrom_First(row, tln, i, nearest_line_number, nearest_line_index) ==
    IF i > Len(tln) THEN nearest_line_index
    ELSE LET nearer == nearest_line_number = -1 /\ tln[i] <= row
             number == IF nearer THEN tln[i] ELSE nearest_line_number
             index  == IF nearer THEN i - 1 ELSE nearest_line_index
         IN  IF tln[i] >= row THEN index
             ELSE NearestFrom_First(row, tln, i + 1, number, index)

\* faulty variant of NearestFrom: only tag lines strictly above row count
RECURSIVE NearestFrom_Strict(_, _, _, _, _)
NearestFrom_Strict(row, tln, i, nearest_line_number, nearest_line_index) ==
    IF i > Len(tln) THEN nearest_line_index
    ELSE LET nearer == nearest_line_number < tln[i] /\ tln[i] < row
             number == IF nearer THEN tln[i] ELSE nearest_line_number
             index  == IF nearer THEN i - 1 ELSE nearest_line_index
         IN  IF tln[i] >= row THEN index
             ELSE NearestFrom_Strict(row, tln, i + 1, number, index)

\* the loop of get_nearest_line_index from list position i (1-based) on
RECURSIVE NearestFrom(_, _, _, _, _)
NearestFrom(row, tln, i, nearest_line_number, nearest_line_index) ==
    IF i > Len(tln) THEN nearest_line_index
    ELSE LET nearer == nearest_line_number < tln[i] /\ tln[i] <= row
             number == IF nearer THEN tln[i] ELSE nearest_line_number
             index  == IF nearer THEN i - 1 ELSE nearest_line_index
         IN  IF tln[i] >= row THEN index
             ELSE NearestFrom(row, tln, i + 1, number, index)

\* the 0-based index of the nearest tag line at or above row, or -1
get_nearest_line_index(row, tln) == NearestFrom(row, tln, 1, -1, -1)

\* the number of elements of tag_line_numbers the loop of
\* get_nearest_line_index examines from list position i (1-based) on before
\* its 'break' or its end
RECURSIVE NearestExamined(_, _, _)
NearestExamined(row, tln, i) ==
    IF i > Len(tln) THEN Len(tln)
    ELSE IF tln[i] >= row THEN i
    ELSE NearestExamined(row, tln, i + 1)

\* faulty variant of get_tags: the changed tick is not compared, any cached
\* entry of the buffer is returned
get_tags_AnyTick(buffer_number, changed_tick) ==
    IF buffer_number \in DOMAIN BUFFERTICKS
    THEN [ret |-> <<TAGLINENUMBERS[buffer_number], TAGS[buffer_number]>>,
          rescanned |-> FALSE,
          TAGS |-> TAGS, TAGLINENUMBERS |-> TAGLINENUMBERS,
          BUFFERTICKS |-> BUFFERTICKS]
    ELSE LET parsed == SimplePythonTagsParser_get_tags(buffer)
         IN  [ret |-> parsed, rescanned |-> TRUE,
              TAGS |-> DictSet(TAGS, buffer_number, parsed[2]),
              TAGLINENUMBERS |-> DictSet(TAGLINENUMBERS, buffer_number, parsed[1]),
              BUFFERTICKS |-> DictSet(BUFFERTICKS, buffer_number, changed_tick)]

\* faulty variant of get_tags: the cache is never consulted
get_tags_AlwaysScan(buffer_number, changed_tick) ==
    LET parsed == SimplePythonTagsParser_get_tags(buffer)
    IN  [ret |-> parsed, rescanned |-> TRUE,
         TAGS |-> DictSet(TAGS, buffer_number, parsed[2]),
         TAGLINENUMBERS |-> DictSet(TAGLINENUMBERS, buffer_number, parsed[1]),
         BUFFERTICKS |-> DictSet(BUFFERTICKS, buffer_number, changed_tick)]

\* get_tags(buffer_number, changed_tick): the pair returned, whether the
\* parser ran, and the three module-level dicts afterwards
get_tags(buffer_number, changed_tick) ==
    IF /\ buffer_number \in DOMAIN BUFFERTICKS
       /\ BUFFERTICKS[buffer_number] = changed_tick
    THEN [ret |-> <<TAGLINENUMBERS[buffer_number], TAGS[buffer_number]>>,
          rescanned |-> FALSE,
          TAGS |-> TAGS, TAGLINENUMBERS |-> TAGLINENUMBERS,
          BUFFERTICKS |-> BUFFERTICKS]
    ELSE LET parsed == SimplePythonTagsParser_get_tags(buffer)
         IN  [ret |-> parsed, rescanned |-> TRUE,
              TAGS |-> DictSet(TAGS, buffer_number, parsed[2]),
              TAGLINENUMBERS |-> DictSet(TAGLINENUMBERS, buffer_number, parsed[1]),
              BUFFERTICKS |-> DictSet(BUFFERTICKS, buffer_number, changed_tick)]

\* current_buffer[index] with a 0-based index >= 0
InBuffer(buf, index) == index < Len(buf)

\* the indentation find_tag computes for a line (tabs count TABSIZE), and
\* the 1-based position of the first character that is no white space
RECURSIVE LineStart(_, _)
LineStart(line, i) ==
    IF i <= Len(line) /\ line[i] \in WS
    THEN (IF line[i] = "\t" THEN TABSIZE ELSE 1) + LineStart(line, i + 1)
    ELSE 0

\* whether a walked line invalidates a tag of the given indent_level
Invalidates(line, indent_level) ==
    LET i == SpanIn(line, WS) + 1
    IN  /\ Len(line) > 0
        /\ i <= Len(line)
        /\ line[i] # "#"
        /\ LineStart(line, 1) <= indent_level

\* faulty variant of Walk: a white-space-only line is not skipped but
\* compared like a line of code
RECURSIVE Walk_BlankCounts(_, _, _, _)
Walk_BlankCounts(buf, index, row, indent_level) ==
    IF index >= row THEN [verdict |-> "valid", indexed |-> {}]
    ELSE IF ~InBuffer(buf, index)
    THEN [verdict |-> "IndexError", indexed |-> {index}]
    ELSE IF \/ Invalidates(buf[index + 1], indent_level)
            \/ /\ Len(buf[index + 1]) > 0
               /\ ~Strip(buf[index + 1])
               /\ LineStart(buf[index + 1], 1) <= indent_level
    THEN [verdict |-> "invalid", indexed |-> {index}]
    ELSE LET rest == Walk_BlankCounts(buf, index + 1, row, indent_level)
         IN  [rest EXCEPT !.indexed = @ \cup {index}]

\* 'for line_number in xrange(nearest_line_number + 1, row)' from index on:
\* "valid" when the loop ends without a break, "invalid" when a line
\* invalidates the tag, "IndexError" when current_buffer[index] raises;
\* indexed is the set of indices current_buffer was subscripted with
RECURSIVE Walk(_, _, _, _)
Walk(buf, index, row, indent_level) ==
    IF index >= row THEN [verdict |-> "valid", indexed |-> {}]
    ELSE IF ~InBuffer(buf, index)
    THEN [verdict |-> "IndexError", indexed |-> {index}]
    ELSE IF Invalidates(buf[index + 1], indent_level)
    THEN [verdict |-> "invalid", indexed |-> {index}]
    ELSE LET rest == Walk(buf, index + 1, row, indent_level)
         IN  [rest EXCEPT !.indexed = @ \cup {index}]

\* faulty variant of Resolve: a rejection steps back two entries of
\* tag_line_numbers instead of one
RECURSIVE Resolve_SkipsOne(_, _, _, _, _, _, _)
Resolve_SkipsOne(buf, row, tln, tgs, nearest_line_index, tried, indexed) ==
    IF nearest_line_index <= -1
    THEN [nearest_line_number |-> -1, raised |-> None,
          tried |-> tried, indexed |-> indexed]
    ELSE LET nearest_line_number == tln[nearest_line_index + 1]
             w == Walk(buf, nearest_line_number + 1, row,
                       tgs[nearest_line_number].indent_level)
             out == [nearest_line_number |-> nearest_line_number,
                     raised |-> None,
                     tried |-> Append(tried, nearest_line_number),
                     indexed |-> indexed \cup w.indexed]
         IN  IF w.verdict = "valid" THEN out
             ELSE IF w.verdict = "IndexError"
             THEN [out EXCEPT !.raised = "IndexError"]
             ELSE Resolve_SkipsOne(buf, row, tln, tgs, nearest_line_index - 2,
                                   out.tried, out.indexed)

\* the 'while nearest_line_index > -1' loop of find_tag with its else
\* clause: the final nearest_line_number (-1: no tag), the exception
\* raised, the candidates tried and the buffer indices subscripted
RECURSIVE Resolve(_, _, _, _, _, _, _)
Resolve(buf, row, tln, tgs, nearest_line_index, tried, indexed) ==
    IF nearest_line_index <= -1
    THEN [nearest_line_number |-> -1, raised |-> None,
          tried |-> tried, indexed |-> indexed]
    ELSE LET nearest_line_number == tln[nearest_line_index + 1]
             w == Walk(buf, nearest_line_number + 1, row,
                       tgs[nearest_line_number].indent_level)
             out == [nearest_line_number |-> nearest_line_number,
                     raised |-> None,
                     tried |-> Append(tried, nearest_line_number),
                     indexed |-> indexed \cup w.indexed]
         IN  IF w.verdict = "valid" THEN out
             ELSE IF w.verdict = "IndexError"
             THEN [out EXCEPT !.raised = "IndexError"]
             ELSE Resolve(buf, row, tln, tgs, nearest_line_index - 1,
                          out.tried, out.indexed)

\* the three status-line values find_tag writes for a resolution
Description(tgs, nearest_line_number) ==
    IF nearest_line_number > -1
    THEN LET tag_info == tgs[nearest_line_number]
         IN  [PHStatusLine |-> tag_info.full_name \o <<" ", "(">>
                               \o <<tag_info.tag_type>> \o <<")">>,
              PHStatusLineTag |-> tag_info.full_name,
              PHStatusLineType |-> tag_info.tag_type]
    ELSE [PHStatusLine |-> <<>>, PHStatusLineTag |-> <<>>,
          PHStatusLineType |-> ""]

\* 'try: ... except KeyError: pass' around an outcome r of DictDel
ExceptKeyErrorPass(r) ==
    IF r.raised = "KeyError" THEN [r EXCEPT !.raised = None] ELSE r

\* the first exception among outcomes that leaves the function
Raised(outcomes) ==
    IF \A i \in 1..Len(outcomes) : outcomes[i].raised = None THEN None
    ELSE outcomes[CHOOSE i \in 1..Len(outcomes) :
                      /\ outcomes[i].raised # None
                      /\ \A j \in 1..(i - 1) : outcomes[j].raised = None].raised

\* faulty variant of DeleteAll: a missing key is an error
DeleteAll_KeyErrorEscapes(buffer_number) ==
    LET t == DictDel(TAGS, buffer_number)
        l == DictDel(TAGLINENUMBERS, buffer_number)
        k == DictDel(BUFFERTICKS, buffer_number)
    IN  [TAGS |-> t.dict, TAGLINENUMBERS |-> l.dict, BUFFERTICKS |-> k.dict,
         raised |-> Raised(<<t, l, k>>)]

\* faulty variant of DeleteAll: nothing is deleted
DeleteAll_Nothing(buffer_number) ==
    [TAGS |-> TAGS, TAGLINENUMBERS |-> TAGLINENUMBERS,
     BUFFERTICKS |-> BUFFERTICKS, raised |-> None]

\* faulty variant of DeleteAll: TAGLINENUMBERS is left out of the loop
DeleteAll_KeepsLineNumbers(buffer_number) ==
    LET t == ExceptKeyErrorPass(DictDel(TAGS, buffer_number))
        k == ExceptKeyErrorPass(DictDel(BUFFERTICKS, buffer_number))
    IN  [TAGS |-> t.dict, TAGLINENUMBERS |-> TAGLINENUMBERS,
         BUFFERTICKS |-> k.dict, raised |-> Raised(<<t, k>>)]

\* faulty variant of DeleteAll: the three dicts are emptied
DeleteAll_ClearsAll(buffer_number) ==
    [TAGS |-> EmptyDict, TAGLINENUMBERS |-> EmptyDict, BUFFERTICKS |-> EmptyDict,
     raised |-> None]

\* delete_tags(buffer_number): 'del o[buffer_number]' on each of the three
\* dicts, a KeyError being passed over
DeleteAll(buffer_number) ==
    LET t == ExceptKeyErrorPass(DictDel(TAGS, buffer_number))
        l == ExceptKeyErrorPass(DictDel(TAGLINENUMBERS, buffer_number))
        k == ExceptKeyErrorPass(DictDel(BUFFERTICKS, buffer_number))
    IN  [TAGS |-> t.dict, TAGLINENUMBERS |-> l.dict, BUFFERTICKS |-> k.dict,
         raised |-> Raised(<<t, l, k>>)]

-----------------------------------------------------------------------------
(* src/ftplugin/python/pythonhelper.py: PythonHelper *)

\* keys of PythonHelper.TAGS: a buffer number (int) or a str
IntKey(n) == <<"int", n>>
StrKey(s) == <<"str", s>>

\* vim.current.buffer[index] for any integer index, negative indices
\* counting from the end as Python sequences do: the 1-based position of
\* the line, 0 when the subscript raises IndexError
Position(buf, index) ==
    IF 0 <= index /\ index < Len(buf) THEN index + 1
    ELSE IF index < 0 /\ index >= -Len(buf) THEN Len(buf) + index + 1
    ELSE 0

\* the 'while True' loop of _get_tag: line_number is the index of the
\* first line at or above index that is not blank; raised is "IndexError"
\* when a subscript raises before one is found
RECURSIVE SkipBlank(_, _)
SkipBlank(buf, index) ==
    IF Position(buf, index) = 0
    THEN [line_number |-> index, raised |-> "IndexError"]
    ELSE IF Strip(buf[Position(buf, index)])
    THEN [line_number |-> index, raised |-> None]
    ELSE SkipBlank(buf, index - 1)

\* the 'for line_no in range(line_number - 1, 0, -1)' loop of _get_tag from
\* line_no down, tag being the value the variable holds, and the final
\* 'return tag'
RECURSIVE UpScan(_, _, _, _, _)
UpScan(buf, tgs, line_no, line_indent, tag) ==
    IF line_no < 1 THEN tag
    ELSE LET t     == DictGet(tgs, line_no, NoTag)
             line  == buf[line_no + 1]
             upper_line_indent == get_indent_level(line)
         IN  IF t # NoTag /\ upper_line_indent < line_indent THEN t
             ELSE IF ~Strip(line)
             THEN UpScan(buf, tgs, line_no - 1, line_indent, t)
             ELSE IF upper_line_indent = 0 THEN NoTag
             ELSE IF upper_line_indent >= line_indent
             THEN UpScan(buf, tgs, line_no - 1, line_indent, t)
             ELSE IF t # NoTag /\ t.indent_level >= line_indent
             THEN UpScan(buf, tgs, line_no - 1, line_indent, NoTag)
             ELSE UpScan(buf, tgs, line_no - 1, line_indent, t)

\* the part of _get_tag after the tags are known: the tag returned
NearestTag(buf, tgs, row) ==
    LET skip == SkipBlank(buf, row - 1)
        ln   == skip.line_number
    IN  IF skip.raised = "IndexError" THEN NoTag
        ELSE LET line_indent == get_indent_level(buf[Position(buf, ln)])
                 tag         == DictGet(tgs, ln, NoTag)
             IN  IF line_indent = 0 \/ tag # NoTag THEN tag
                 ELSE UpScan(buf, tgs, ln - 1, line_indent, tag)

\* the key _get_tag stores a rebuilt entry under: the literal
\* 'buffer_number'
StoreKey(buffer_number) == StrKey("buffer_number")

\* the cache branch of _get_tag: the tags used, whether the parser ran, and
\* PythonHelper.TAGS afterwards
Ft_cached_tags(buffer_number, changed_tick) ==
    IF /\ IntKey(buffer_number) \in DOMAIN PythonHelper_TAGS
       /\ PythonHelper_TAGS[IntKey(buffer_number)].changed_tick = changed_tick
    THEN [tags |-> PythonHelper_TAGS[IntKey(buffer_number)].tags,
          rescanned |-> FALSE, TAGS |-> PythonHelper_TAGS]
    ELSE LET parsed == EvenSimplerPythonTagsParser_get_tags(buffer)
         IN  [tags |-> parsed, rescanned |-> TRUE,
              TAGS |-> DictSet(PythonHelper_TAGS, StoreKey(buffer_number),
                               [changed_tick |-> changed_tick,
                                tags |-> parsed])]

\* PythonHelper.delete_tags: 'del PythonHelper.TAGS[buffer_number]', a
\* KeyError being passed over
Ft_delete(buffer_number) ==
    LET d == ExceptKeyErrorPass(DictDel(PythonHelper_TAGS, IntKey(buffer_number)))
    IN  [TAGS |-> d.dict, raised |-> d.raised]

-----------------------------------------------------------------------------
(* Source lines the host may hold in a buffer *)

Sp(n) == [i \in 1..n |-> " "]
KwClass == <<"c", "l", "a", "s", "s">>
KwDef   == <<"d", "e", "f">>

LineBlank      == <<>>
LineSpaces     == Sp(1)
LineClassC     == KwClass \o <<" ", "C", ":">>
LineClassD1    == Sp(1) \o KwClass \o <<" ", "D", ":">>
LineDefF       == KwDef \o <<" ", "f", "(", ")", ":">>
LineDefM1      == Sp(1) \o KwDef \o <<" ", "m", "(", ")", ":">>
LineDefG2      == Sp(2) \o KwDef \o <<" ", "g", "(", ")", ":">>
LineDefTab     == <<"\t">> \o KwDef \o <<" ", "t", "(", ")", ":">>
LineDefDotted  == KwDef \o <<" ", "a", ".", "b", "(", ")", ":">>
LineClassBare  == KwClass \o Sp(2)
LineHashDef    == <<"#">> \o KwDef \o <<" ", "h", "(", ")", ":">>
LineStmt0      == <<"x">>
LineStmt1      == Sp(1) \o <<"x">>
LineStmt2      == Sp(2) \o <<"x">>
LineComment0   == <<"#">>

\* the lines a scanned source is made of
ScanLines == {LineClassC, LineClassD1, LineDefF, LineDefM1, LineDefG2,
              LineDefTab, LineDefDotted, LineClassBare, LineHashDef, LineStmt1}

\* longest scanned source, in lines
MaxScanLines == 3

RECURSIVE SeqsUpTo(_, _)
SeqsUpTo(S, n) ==
    IF n = 0 THEN {<<>>}
    ELSE LET shorter == SeqsUpTo(S, n - 1)
         IN  shorter \cup {Append(s, x) : s \in {t \in shorter : Len(t) = n - 1},
                                          x \in S}

-----------------------------------------------------------------------------
(* The host's calls *)

Buffers == 1..MaxBuf
Ticks   == 1..MaxTick

\* a call as recorded: the function, its arguments, the buffer content at
\* the time of the call (source), the set holding the changed tick cached
\* for buffer_number when the call was made (stored: empty when no entry),
\* what the call before it was (after), the value returned, whether a
\* parser ran, the exception raised
NoCall == [op |-> "none", buffer_number |-> 0, changed_tick |-> 0,
           source |-> <<>>, stored |-> {}, after |-> "other",
           ret |-> None, rescanned |-> FALSE, raised |-> None]

DeleteOps == {"delete_tags", "PythonHelper.delete_tags"}

\* the function that evicts what op caches
DeleteOf(op) ==
    IF op \in {"get_tags", "find_tag"} THEN "delete_tags"
    ELSE IF op = "PythonHelper._get_tag" THEN "PythonHelper.delete_tags"
    ELSE None

\* what the call before op(b, c) was: the same call; the eviction of b,
\* of an entry with tick c or not; a deletion that found no entry; other
After(op, b, c) ==
    IF call.op = op /\ call.buffer_number = b /\ call.changed_tick = c
    THEN "same call"
    ELSE IF call.op = DeleteOf(op) /\ call.buffer_number = b
    THEN IF c \in call.stored THEN "evicted same tick" ELSE "evicted"
    ELSE IF call.op \in DeleteOps /\ call.stored = {}
    THEN "deleted nothing"
    ELSE "other"

NoStatus == [PHStatusLine |-> <<>>, PHStatusLineTag |-> <<>>,
             PHStatusLineType |-> ""]

NoResolution == [nearest_line_number |-> -1, raised |-> None,
                 tried |-> <<>>, indexed |-> {}]

StoredTick(b) ==
    IF b \in DOMAIN BUFFERTICKS THEN {BUFFERTICKS[b]} ELSE {}

FtStoredTick(b) ==
    IF IntKey(b) \in DOMAIN PythonHelper_TAGS
    THEN {PythonHelper_TAGS[IntKey(b)].changed_tick} ELSE {}

\* the host calls get_tags(b, c)
GetTags(b, c) ==
    \E r \in {get_tags(b, c)} :
        /\ TAGS' = r.TAGS
        /\ TAGLINENUMBERS' = r.TAGLINENUMBERS
        /\ BUFFERTICKS' = r.BUFFERTICKS
        /\ call' = [op |-> "get_tags", buffer_number |-> b, changed_tick |-> c,
                    source |-> buffer, stored |-> StoredTick(b),
                    after |-> After("get_tags", b, c),
                    ret |-> r.ret, rescanned |-> r.rescanned,
                    raised |-> None]
        /\ UNCHANGED <<hostVars, PythonHelper_TAGS, PHStatusLine, resolution,
                       scanVars>>

\* the 'try' block of find_tag after get_tags has returned r: the locals
\* the resolution of the cursor row ends with
Resolution(r) ==
    Resolve(buffer, cursor, r.ret[1], r.ret[2],
            get_nearest_line_index(cursor, r.ret[1]), <<>>, {})

\* the host calls find_tag(b, c): the tags are fetched, the cursor row is
\* resolved and the status-line variables are written; an exception is
\* caught and reported instead
FindTag(b, c) ==
    \E r \in {get_tags(b, c)} : \E res \in {Resolution(r)} :
        /\ TAGS' = r.TAGS
        /\ TAGLINENUMBERS' = r.TAGLINENUMBERS
        /\ BUFFERTICKS' = r.BUFFERTICKS
        /\ resolution' = res
        /\ PHStatusLine' = IF res.raised = None
                           THEN Description(r.ret[2], res.nearest_line_number)
                           ELSE PHStatusLine
        /\ call' = [op |-> "find_tag", buffer_number |-> b, changed_tick |-> c,
                    source |-> buffer, stored |-> StoredTick(b),
                    after |-> After("find_tag", b, c),
                    ret |-> None, rescanned |-> r.rescanned,
                    raised |-> res.raised]
        /\ UNCHANGED <<hostVars, PythonHelper_TAGS, scanVars>>

\* the host calls delete_tags(b)
DeleteTags(b) ==
    \E r \in {DeleteAll(b)} :
        /\ TAGS' = r.TAGS
        /\ TAGLINENUMBERS' = r.TAGLINENUMBERS
        /\ BUFFERTICKS' = r.BUFFERTICKS
        /\ call' = [op |-> "delete_tags", buffer_number |-> b,
                    changed_tick |-> 0, source |-> buffer,
                    stored |-> StoredTick(b),
                    after |-> After("delete_tags", b, 0),
                    ret |-> None, rescanned |-> FALSE, raised |-> r.raised]
        /\ UNCHANGED <<hostVars, PythonHelper_TAGS, PHStatusLine, resolution,
                       scanVars>>

\* PythonHelper._get_tag(b, c) is called
PythonHelperGetTag(b, c) ==
    \E r \in {Ft_cached_tags(b, c)} :
        /\ PythonHelper_TAGS' = r.TAGS
        /\ call' = [op |-> "PythonHelper._get_tag", buffer_number |-> b,
                    changed_tick |-> c, source |-> buffer,
                    stored |-> FtStoredTick(b),
                    after |-> After("PythonHelper._get_tag", b, c),
                    ret |-> NearestTag(buffer, r.tags, cursor),
                    rescanned |-> r.rescanned, raised |-> None]
        /\ UNCHANGED <<hostVars, pluginVars, PHStatusLine, resolution,
                       scanVars>>

\* PythonHelper.delete_tags(b) is called
PythonHelperDeleteTags(b) ==
    \E r \in {Ft_delete(b)} :
        /\ PythonHelper_TAGS' = r.TAGS
        /\ call' = [op |-> "PythonHelper.delete_tags", buffer_number |-> b,
                    changed_tick |-> 0, source |-> buffer,
                    stored |-> FtStoredTick(b),
                    after |-> After("PythonHelper.delete_tags", b, 0),
                    ret |-> None, rescanned |-> FALSE, raised |-> r.raised]
        /\ UNCHANGED <<hostVars, pluginVars, PHStatusLine, resolution,
                       scanVars>>

\* the user changes the text of the current buffer
SetBuffer(content) ==
    /\ content # buffer
    /\ Len(content) >= cursor
    /\ buffer' = content
    /\ UNCHANGED <<cursor, pluginVars, PythonHelper_TAGS, PHStatusLine, call,
                   resolution, scanVars>>

NoScan ==
    /\ parser = None
    /\ line_number = 0
    /\ tag_line_numbers = <<>>
    /\ tags = EmptyDict
    /\ tags_stack = <<>>

-----------------------------------------------------------------------------
(* SpecCache: the user edits the current buffer and the host calls the     *)
(* cache functions of src/plugin/pythonhelper.py with any buffer number    *)
(* and any changed tick                                                    *)

CacheContents ==
    { <<LineClassC, LineDefM1>>,
      <<LineDefF, LineStmt1>> }

InitCache ==
    /\ buffer \in CacheContents
    /\ cursor = 1
    /\ TAGS = EmptyDict /\ TAGLINENUMBERS = EmptyDict /\ BUFFERTICKS = EmptyDict
    /\ PythonHelper_TAGS = EmptyDict
    /\ PHStatusLine = NoStatus
    /\ call = NoCall
    /\ resolution = NoResolution
    /\ NoScan

NextCache ==
    \/ \E content \in CacheContents : SetBuffer(content)
    \/ \E b \in Buffers, c \in Ticks : GetTags(b, c)
    \/ \E b \in Buffers : DeleteTags(b)

SpecCache == InitCache /\ [][NextCache]_vars

-----------------------------------------------------------------------------
(* SpecEvict: on a buffer that is not edited, the host calls the cache     *)
(* functions of both plugins with any buffer number and any changed tick   *)

InitEvict ==
    /\ InitCache

NextEvict ==
    \/ \E b \in Buffers, c \in Ticks : GetTags(b, c)
    \/ \E b \in Buffers : DeleteTags(b)
    \/ \E b \in Buffers, c \in Ticks : PythonHelperGetTag(b, c)
    \/ \E b \in Buffers : PythonHelperDeleteTags(b)

SpecEvict == InitEvict /\ [][NextEvict]_vars

-----------------------------------------------------------------------------
(* SpecResolve: on a buffer of up to MaxLines lines with the cursor on any *)
(* row the host reports, the host asks one of the plugins, once, for the   *)
(* tag at the cursor                                                       *)

ResolveLines == {LineBlank, LineSpaces, LineClassC, LineDefM1, LineStmt0,
                 LineStmt1, LineStmt2, LineComment0}

InitResolve ==
    /\ buffer \in SeqsUpTo(ResolveLines, MaxLines) \ {<<>>}
    /\ cursor \in 1..(Len(buffer) + 1)
    /\ TAGS = EmptyDict /\ TAGLINENUMBERS = EmptyDict /\ BUFFERTICKS = EmptyDict
    /\ PythonHelper_TAGS = EmptyDict
    /\ PHStatusLine = NoStatus
    /\ call = NoCall
    /\ resolution = NoResolution
    /\ NoScan

NextResolve ==
    \/ \E b \in {1}, c \in {1} : call.op = "none" /\ FindTag(b, c)
    \/ \E b \in {1}, c \in {1} : call.op = "none" /\ PythonHelperGetTag(b, c)

SpecResolve == InitResolve /\ [][NextResolve]_vars

-----------------------------------------------------------------------------
(* SpecScan: a parser object scans a source line by line *)

InitScan ==
    /\ buffer \in SeqsUpTo(ScanLines, MaxScanLines)
    /\ cursor = 1
    /\ TAGS = EmptyDict /\ TAGLINENUMBERS = EmptyDict /\ BUFFERTICKS = EmptyDict
    /\ PythonHelper_TAGS = EmptyDict
    /\ PHStatusLine = NoStatus
    /\ call = NoCall
    /\ resolution = NoResolution
    /\ parser \in {"SimplePythonTagsParser", "EvenSimplerPythonTagsParser"}
    /\ line_number = 0
    /\ tag_line_numbers = <<>>
    /\ tags = EmptyDict
    /\ tags_stack = <<>>

ScanState == [tag_line_numbers |-> tag_line_numbers, tags |-> tags,
              tags_stack |-> tags_stack]

\* SimplePythonTagsParser.get_tags consumes the next line of the source
SimpleScanStep ==
    /\ parser = "SimplePythonTagsParser"
    /\ line_number < Len(buffer)
    /\ \E st \in {ScanLine(ScanState, buffer[line_number + 1], line_number + 1)} :
           /\ tag_line_numbers' = st.tag_line_numbers
           /\ tags' = st.tags
           /\ tags_stack' = st.tags_stack
    /\ line_number' = line_number + 1
    /\ UNCHANGED <<hostVars, pluginVars, PythonHelper_TAGS, PHStatusLine,
                   call, resolution, parser>>

\* EvenSimplerPythonTagsParser.get_tags consumes the next line of the buffer
FtScanStep ==
    /\ parser = "EvenSimplerPythonTagsParser"
    /\ line_number < Len(buffer)
    /\ \E st \in {FtScanLine(ScanState, buffer[line_number + 1], line_number)} :
           /\ tag_line_numbers' = st.tag_line_numbers
           /\ tags' = st.tags
           /\ tags_stack' = st.tags_stack
    /\ line_number' = line_number + 1
    /\ UNCHANGED <<hostVars, pluginVars, PythonHelper_TAGS, PHStatusLine,
                   call, resolution, parser>>

NextScan == SimpleScanStep \/ FtScanStep

SpecScan == InitScan /\ [][NextScan]_vars

-----------------------------------------------------------------------------
(* Properties of the parsers (SpecScan) *)

Range(f) == {f[x] : x \in DOMAIN f}

EndsWith(s, suffix) ==
    Len(s) >= Len(suffix) /\ SubSeq(s, Len(s) - Len(suffix) + 1, Len(s)) = suffix

\* the source line a tag of the running scan was declared on
TagLine(t) ==
    IF parser = "SimplePythonTagsParser" THEN buffer[t.line_number]
    ELSE buffer[t.line_number + 1]

\* the declaration keyword on a tag's line
DeclKeyword(t) ==
    IF StartsWith(Tail_(TagLine(t), SpanIn(TagLine(t), WS) + 1), KwDef)
    THEN "def" ELSE "class"

\* the immediate lexical parent of tag t by indentation: the last tag
\* declared above t that is indented less than t, NoTag when there is none
LexicalParent(t) ==
    LET above == {q \in Range(tags) : /\ q.line_number < t.line_number
                                      /\ q.indent_level < t.indent_level}
    IN  IF above = {} THEN NoTag
        ELSE CHOOSE q \in above : \A r \in above : r.line_number <= q.line_number

\* C6: after any number of scanned lines, and so in the pair get_tags
\* returns, the tag_line_numbers of SimplePythonTagsParser are strictly
\* increasing, are exactly the keys of tags, and every tag's line_number is
\* its key.
C6_LineNumbersMatchTags ==
    parser = "SimplePythonTagsParser" =>
        /\ \A i \in 1..(Len(tag_line_numbers) - 1) :
               tag_line_numbers[i] < tag_line_numbers[i + 1]
        /\ Range(tag_line_numbers) = DOMAIN tags
        /\ \A k \in DOMAIN tags : tags[k].line_number = k
        /\ line_number = Len(buffer) =>
               <<tag_line_numbers, tags>> = SimplePythonTagsParser_get_tags(buffer)

C6_Witness ==
    /\ parser = "SimplePythonTagsParser"
    /\ line_number = Len(buffer)
    /\ Len(tag_line_numbers) >= 2
    /\ \E k \in DOMAIN tags : tags[k].tag_type = "method"

\* C7 as stated: every tag is of kind 'method' exactly when its immediate
\* lexical parent is a tag of kind 'class'.
C7_MethodIffParentClass ==
    \A t \in Range(tags) :
        (t.tag_type = "method") <=> (LexicalParent(t).tag_type = "class")

\* C7 amended: a tag declared with 'def' is of kind 'method' exactly when
\* its immediate lexical parent is a tag of kind 'class'; a tag declared
\* with 'class' is of kind 'class' whatever its parent.
C7_DefMethodIffParentClass ==
    \A t \in Range(tags) :
        IF DeclKeyword(t) = "def"
        THEN (t.tag_type = "method") <=> (LexicalParent(t).tag_type = "class")
        ELSE t.tag_type = "class"

C7_Witness ==
    /\ line_number = Len(buffer)
    /\ \E t \in Range(tags) : t.tag_type = "method"
    /\ \E t \in Range(tags) : /\ t.tag_type = "function"
                              /\ LexicalParent(t).tag_type = "method"

NoDot(name) == \A i \in 1..Len(name) : name[i] # "."

\* C8: every open tag of SimplePythonTagsParser has the full_name of the
\* tag below it on the stack followed by "." and its name, or its name when
\* it is at the bottom; full_name ends with name; and when no name on the
\* stack up to it holds a dot, full_name has as many dot-separated
\* components as the depth of the stack right after the tag was pushed.
C8_FullNameFollowsStack ==
    parser = "SimplePythonTagsParser" =>
        \A i \in 1..Len(tags_stack) :
            LET t == tags_stack[i]
            IN  /\ t.full_name = IF i = 1 THEN t.name
                                 ELSE tags_stack[i - 1].full_name \o <<".">> \o t.name
                /\ EndsWith(t.full_name, t.name)
                /\ (\A j \in 1..i : NoDot(tags_stack[j].name))
                       => NumComponents(t.full_name) = i

C8_Witness ==
    /\ parser = "SimplePythonTagsParser"
    /\ Len(tags_stack) = 3
    /\ \A j \in 1..3 : NoDot(tags_stack[j].name)
    /\ tags_stack[3].line_number = line_number

-----------------------------------------------------------------------------
(* Properties of the tag caches (SpecCache, SpecEvict) *)

\* C1: a get_tags(b, c) call made right after a get_tags(b, c) call with
\* the same buffer number and changed tick returns the pair the first call
\* returned and does not run the parser, whatever the buffer holds by then.
C1_SameTickSameResult ==
    [][\A b \in Buffers, c \in Ticks :
          ( /\ call.op = "get_tags"
            /\ call.buffer_number = b
            /\ call.changed_tick = c
            /\ GetTags(b, c) )
          => (call'.ret = call.ret /\ ~call'.rescanned)]_vars

\* the second of two equal calls returned the first one's pair although
\* the buffer had changed in between
C1_Witness ==
    /\ call.op = "get_tags"
    /\ call.after = "same call"
    /\ ~call.rescanned
    /\ call.ret # SimplePythonTagsParser_get_tags(call.source)

\* C2: a get_tags(b, c) call made while no entry of b is cached, or while
\* the tick cached for b is not c, returns what the parser gives for the
\* buffer content at the time of the call, and leaves exactly that pair
\* and the tick c cached for b.
C2_MissRebuildsAndStores ==
    (call.op = "get_tags" /\ call.changed_tick \notin call.stored) =>
        LET b == call.buffer_number
        IN  /\ call.rescanned
            /\ call.ret = SimplePythonTagsParser_get_tags(call.source)
            /\ b \in DOMAIN TAGS /\ TAGS[b] = call.ret[2]
            /\ b \in DOMAIN TAGLINENUMBERS /\ TAGLINENUMBERS[b] = call.ret[1]
            /\ b \in DOMAIN BUFFERTICKS /\ BUFFERTICKS[b] = call.changed_tick

\* an entry with another tick was cached and has been replaced
C2_Witness ==
    /\ call.op = "get_tags"
    /\ call.stored # {}
    /\ call.changed_tick \notin call.stored
    /\ call.rescanned
    /\ call.ret[1] # <<>>
    /\ BUFFERTICKS[call.buffer_number] = call.changed_tick

\* C3: after PythonHelper._get_tag(b, c) has run the parser,
\* PythonHelper.TAGS holds the tags under key b with tick c, and the same
\* call made right after it does not run the parser again.
C3_CacheKeyIsBufferNumber ==
    call.op = "PythonHelper._get_tag" =>
        /\ call.rescanned =>
              /\ IntKey(call.buffer_number) \in DOMAIN PythonHelper_TAGS
              /\ PythonHelper_TAGS[IntKey(call.buffer_number)] =
                     [changed_tick |-> call.changed_tick,
                      tags |-> EvenSimplerPythonTagsParser_get_tags(call.source)]
        /\ call.after = "same call" => ~call.rescanned

\* C4: a get_tags(b, c) call made right after delete_tags(b) runs the
\* parser and returns what it gives for the buffer content at the time of
\* the call, also when the evicted entry had the tick c.
C4_EvictionForcesRescan ==
    (call.op = "get_tags" /\ call.after \in {"evicted", "evicted same tick"}) =>
        /\ call.rescanned
        /\ call.ret = SimplePythonTagsParser_get_tags(call.source)

C4_Witness ==
    /\ call.op = "get_tags"
    /\ call.after = "evicted same tick"
    /\ call.rescanned
    /\ call.ret[1] # <<>>

\* C5: delete_tags(b) of either plugin, called while b has no cached
\* entry, raises nothing and leaves every cache dict as it was.
C5_DeleteMissingIsNoOp ==
    [][\A b \in Buffers :
          /\ ( /\ DeleteTags(b)
               /\ b \notin DOMAIN TAGS
               /\ b \notin DOMAIN TAGLINENUMBERS
               /\ b \notin DOMAIN BUFFERTICKS )
             => ( /\ call'.raised = None
                  /\ UNCHANGED <<pluginVars, PythonHelper_TAGS>> )
          /\ ( /\ PythonHelperDeleteTags(b)
               /\ IntKey(b) \notin DOMAIN PythonHelper_TAGS )
             => ( /\ call'.raised = None
                  /\ UNCHANGED <<pluginVars, PythonHelper_TAGS>> )]_vars

\* both delete_tags have been called for a buffer number without an entry
\* while both caches held entries
C5_Witness ==
    /\ call.op = "PythonHelper.delete_tags"
    /\ call.stored = {}
    /\ call.after = "deleted nothing"
    /\ call.raised = None
    /\ DOMAIN BUFFERTICKS # {}
    /\ DOMAIN PythonHelper_TAGS # {}

-----------------------------------------------------------------------------
(* Properties of find_tag of src/plugin/pythonhelper.py, checked under     *)
(* SpecResolve                                                             *)

\* the column a line's text starts at, a tab counting TABSIZE columns
Indentation(line) == LineStart(line, 1)

IsComment(line) ==
    \E i \in 1..Len(line) :
        /\ line[i] = "#"
        /\ \A j \in 1..(i - 1) : line[j] \in WS

\* the declaration lines at or above the cursor row
DeclarationsAbove ==
    {n \in DOMAIN TAGS[call.buffer_number] : n <= cursor}

NearestDeclaration ==
    CHOOSE n \in DeclarationsAbove : \A m \in DeclarationsAbove : m <= n

\* C9: after find_tag with the cursor on the line of a declaration, the
\* resolution is that line and the status-line variables describe its tag,
\* whatever lines precede or follow it.
C9_DeclarationLineResolvesToItself ==
    (call.op = "find_tag" /\ cursor \in DOMAIN TAGS[call.buffer_number]) =>
        /\ resolution.raised = None
        /\ resolution.nearest_line_number = cursor
        /\ PHStatusLine.PHStatusLineTag =
               TAGS[call.buffer_number][cursor].full_name
        /\ PHStatusLine.PHStatusLineType =
               TAGS[call.buffer_number][cursor].tag_type

\* the cursor is on a nested declaration that another declaration precedes
\* and a line of code at column 0 follows
C9_Witness ==
    /\ call.op = "find_tag"
    /\ cursor \in DOMAIN TAGS[call.buffer_number]
    /\ cursor > 1
    /\ 1 \in DOMAIN TAGS[call.buffer_number]
    /\ TAGS[call.buffer_number][cursor].indent_level > 0
    /\ cursor < Len(buffer)
    /\ buffer[cursor + 1] = LineStmt0
    /\ resolution.nearest_line_number = cursor

\* C10: after find_tag with the cursor on an empty or white-space-only
\* line, when every line between the nearest declaration above and the
\* cursor that is neither blank nor a comment is indented deeper than that
\* declaration, the resolution is that declaration.
C10_BlankCursorLineResolvesToNearest ==
    ( /\ call.op = "find_tag"
      /\ cursor <= Len(buffer)
      /\ ~Strip(buffer[cursor])
      /\ DeclarationsAbove # {}
      /\ \A k \in (NearestDeclaration + 1)..(cursor - 1) :
             (Strip(buffer[k]) /\ ~IsComment(buffer[k])) =>
                 Indentation(buffer[k]) >
                     TAGS[call.buffer_number][NearestDeclaration].indent_level )
    => /\ resolution.raised = None
       /\ resolution.nearest_line_number = NearestDeclaration
       /\ PHStatusLine.PHStatusLineTag =
              TAGS[call.buffer_number][NearestDeclaration].full_name

\* the cursor is on a white-space-only line that is indented no deeper
\* than the declaration above it, with a blank line and a deeper line of
\* code in between
C10_Witness ==
    /\ call.op = "find_tag"
    /\ cursor <= Len(buffer)
    /\ buffer[cursor] = LineSpaces
    /\ DeclarationsAbove # {}
    /\ Indentation(buffer[cursor]) <=
           TAGS[call.buffer_number][NearestDeclaration].indent_level
    /\ \E j, k \in (NearestDeclaration + 1)..(cursor - 1) :
           /\ ~Strip(buffer[j])
           /\ Strip(buffer[k])
           /\ Indentation(buffer[k]) >
                  TAGS[call.buffer_number][NearestDeclaration].indent_level
    /\ resolution.nearest_line_number = NearestDeclaration

\* C11: after find_tag with the cursor on a line of code at column 0 that
\* is neither blank, nor a comment, nor a declaration, the resolution is
\* no tag and the description written is empty.
C11_ColumnZeroCodeResolvesToNoTag ==
    ( /\ call.op = "find_tag"
      /\ cursor <= Len(buffer)
      /\ Strip(buffer[cursor])
      /\ ~IsComment(buffer[cursor])
      /\ Indentation(buffer[cursor]) = 0
      /\ cursor \notin DOMAIN TAGS[call.buffer_number] )
    => /\ resolution.raised = None
       /\ resolution.nearest_line_number = -1
       /\ PHStatusLine = NoStatus

\* C12: after find_tag with the cursor row greater than the number of
\* lines of the buffer, no exception was raised, the resolution is no tag
\* and the description written is empty.
C12_CursorBeyondEndResolvesToNoTag ==
    (call.op = "find_tag" /\ cursor > Len(buffer)) =>
        /\ resolution.raised = None
        /\ call.raised = None
        /\ resolution.nearest_line_number = -1
        /\ PHStatusLine = NoStatus

\* the cursor is on a line from which on the buffer holds blank lines only
InTrailingBlankRegion ==
    /\ cursor <= Len(buffer)
    /\ \A k \in cursor..Len(buffer) : ~Strip(buffer[k])

\* C13: with the cursor on a line of a trailing region of blank lines,
\* find_tag resolves to no tag and PythonHelper._get_tag returns None.
C13_TrailingBlankRegionResolvesToNoTag ==
    InTrailingBlankRegion =>
        /\ call.op = "find_tag" =>
               /\ resolution.raised = None
               /\ resolution.nearest_line_number = -1
               /\ PHStatusLine = NoStatus
        /\ call.op = "PythonHelper._get_tag" => call.ret = NoTag

-----------------------------------------------------------------------------
(* Properties of PythonHelper._get_tag of src/ftplugin/python/pythonhelper.py, *)
(* checked under SpecResolve                                               *)

\* the positions of the lines at or above the cursor that are not blank
NonBlankAbove == {p \in 1..cursor : p <= Len(buffer) /\ Strip(buffer[p])}

\* the innermost declaration that encloses the cursor line by indentation,
\* among the tags tgs (keyed by 0-based line index): the tag on the nearest
\* line at or above the cursor that is not blank if that line is a
\* declaration, otherwise the nearest declaration above it that is
\* indented less and that no line which is not blank and is indented at or
\* below the declaration separates from it; NoTag when there is none
Innermost(tgs) ==
    IF NonBlankAbove = {} THEN NoTag
    ELSE LET p == CHOOSE q \in NonBlankAbove : \A o \in NonBlankAbove : o <= q
             enclosing ==
                 {d \in DOMAIN tgs :
                     /\ d + 1 < p
                     /\ tgs[d].indent_level < get_indent_level(buffer[p])
                     /\ \A k \in (d + 2)..(p - 1) :
                            Strip(buffer[k]) =>
                                get_indent_level(buffer[k]) > tgs[d].indent_level}
         IN  IF p - 1 \in DOMAIN tgs THEN tgs[p - 1]
             ELSE IF enclosing = {} THEN NoTag
             ELSE tgs[CHOOSE d \in enclosing : \A e \in enclosing : e <= d]

\* C14: PythonHelper._get_tag, called with the cursor on a line of the
\* buffer, returns the innermost declaration that encloses the cursor line
\* by indentation, wherever that declaration sits, and None when there is
\* none.
C14_GetTagReturnsInnermost ==
    (call.op = "PythonHelper._get_tag" /\ cursor <= Len(buffer)) =>
        call.ret = Innermost(EvenSimplerPythonTagsParser_get_tags(buffer))

-----------------------------------------------------------------------------
(* Further properties of the parsers (SpecScan) *)

\* C15: every open tag declared with 'class' is of kind 'class'; every open
\* tag declared with 'def' is of kind 'method' when a tag is below it on
\* the stack and that tag is of kind 'class', and of kind 'function'
\* otherwise. Every tag is open right after its line has been scanned.
C15_KindByKeywordAndParent ==
    \A i \in 1..Len(tags_stack) :
        tags_stack[i].tag_type =
            IF DeclKeyword(tags_stack[i]) = "class" THEN "class"
            ELSE IF i > 1 /\ tags_stack[i - 1].tag_type = "class" THEN "method"
            ELSE "function"

\* SimplePythonTagsParser has just scanned a 'def' under a method under a
\* class
C15_Witness ==
    /\ parser = "SimplePythonTagsParser"
    /\ Len(tags_stack) = 3
    /\ tags_stack[3].line_number = line_number
    /\ tags_stack[1].tag_type = "class"
    /\ tags_stack[2].tag_type = "method"
    /\ DeclKeyword(tags_stack[3]) = "def"
    /\ tags_stack[3].tag_type = "function"

\* C16: after any number of scanned lines, the stack of open tags of either
\* parser is strictly increasing in indent_level and in line_number from
\* bottom to top.
C16_StackStrictlyIncreasing ==
    \A i \in 1..(Len(tags_stack) - 1) :
        /\ tags_stack[i].indent_level < tags_stack[i + 1].indent_level
        /\ tags_stack[i].line_number < tags_stack[i + 1].line_number

\* EvenSimplerPythonTagsParser has just scanned a declaration that closed a
\* sibling and stayed under the sibling's parent
C16_Witness ==
    /\ parser = "EvenSimplerPythonTagsParser"
    /\ Len(tags_stack) = 2
    /\ Cardinality(DOMAIN tags) = 3
    /\ tags_stack[2].line_number = line_number - 1
    /\ \E k \in DOMAIN tags :
           /\ tags[k] # tags_stack[2]
           /\ tags[k].indent_level = tags_stack[2].indent_level

\* the name a tag's declaration gives it
DeclaredName(t) ==
    IF parser = "SimplePythonTagsParser" THEN t.name
    ELSE RE_TAG_TYPE(TagLine(t)).group2

\* the tags of stack indented less than indent_level, in their order
OpenBelow(stack, indent_level) ==
    SelectSeq(stack, LAMBDA t : t.indent_level < indent_level)

\* C17: scanning a declaration at indent level L turns the stack into the
\* tags of the previous stack indented less than L, in their order, followed
\* by the new tag; a declaration at the indentation of the top tag replaces
\* it above the same parent, and a declaration indented no deeper than any
\* open tag is left alone on the stack with its name as full_name.
C17_DeclarationClosesDeeperOrEqual ==
    [][(line_number' = line_number + 1 /\ DOMAIN tags' # DOMAIN tags) =>
          LET new == tags_stack'[Len(tags_stack')]
              L   == new.indent_level
          IN  /\ Len(tags_stack') > 0
              /\ new \in Range(tags') \ Range(tags)
              /\ tags_stack' = Append(OpenBelow(tags_stack, L), new)
              /\ (Len(tags_stack) > 0 /\ tags_stack[Len(tags_stack)].indent_level = L)
                     => tags_stack' = Append(SubSeq(tags_stack, 1, Len(tags_stack) - 1), new)
              /\ (\A i \in 1..Len(tags_stack) : L <= tags_stack[i].indent_level)
                     => /\ tags_stack' = <<new>>
                        /\ new.full_name = DeclaredName(new)]_vars

\* a declaration has just closed two nested open tags and is alone on the
\* stack of SimplePythonTagsParser
C17_Witness ==
    /\ parser = "SimplePythonTagsParser"
    /\ Len(tags_stack) = 1
    /\ Cardinality(DOMAIN tags) = 3
    /\ tags_stack[1].line_number = line_number
    /\ tags_stack[1].full_name = tags_stack[1].name
    /\ \E q \in Range(tags) : /\ q.indent_level > tags_stack[1].indent_level
                              /\ q.full_name # q.name

-----------------------------------------------------------------------------
(* Further properties of find_tag of src/plugin/pythonhelper.py (SpecResolve) *)

\* C18: for the tag_line_numbers and cursor row of a find_tag call,
\* get_nearest_line_index gives the index of the largest element that is
\* <= row, which is the first candidate find_tag tries, and -1 when there is
\* none; its loop examines the elements up to the first one >= row.
C18_NearestIsLargestAtOrAbove ==
    call.op = "find_tag" =>
        LET tln     == TAGLINENUMBERS[call.buffer_number]
            atOrAbove == {i \in 1..Len(tln) : tln[i] <= cursor}
            atOrBelow == {i \in 1..Len(tln) : tln[i] >= cursor}
            largest == CHOOSE i \in atOrAbove : \A j \in atOrAbove : tln[j] <= tln[i]
        IN  /\ atOrAbove = {} =>
                   /\ get_nearest_line_index(cursor, tln) = -1
                   /\ resolution.tried = <<>>
                   /\ resolution.nearest_line_number = -1
            /\ atOrAbove # {} =>
                   /\ get_nearest_line_index(cursor, tln) = largest - 1
                   /\ resolution.tried[1] = tln[largest]
            /\ NearestExamined(cursor, tln, 1) =
                   IF atOrBelow = {} THEN Len(tln)
                   ELSE CHOOSE i \in atOrBelow : \A j \in atOrBelow : i <= j

\* the cursor is on a declaration line that has two declarations above it
\* and one below it
C18_Witness ==
    /\ call.op = "find_tag"
    /\ Len(TAGLINENUMBERS[call.buffer_number]) = 4
    /\ cursor = TAGLINENUMBERS[call.buffer_number][3]
    /\ resolution.tried[1] = cursor
    /\ NearestExamined(cursor, TAGLINENUMBERS[call.buffer_number], 1) = 3

\* the source lines (numbered from 1, as tags and the cursor row are) that
\* the walks of the last find_tag call subscripted the buffer for
LinesExamined == {index + 1 : index \in resolution.indexed}

\* C19: when find_tag accepted the first candidate it tried, declared on
\* line t, with the cursor on row r, its walk examined exactly the lines
\* t+1 .. r-1.
C19_WalkExaminesLinesBetween ==
    ( /\ call.op = "find_tag"
      /\ resolution.raised = None
      /\ Len(resolution.tried) = 1
      /\ resolution.nearest_line_number = resolution.tried[1] )
    => LinesExamined = (resolution.tried[1] + 1)..(cursor - 1)

\* the lines walked for a candidate declared on line t: those the walk
\* of find_tag subscripts the buffer for when no line rejects
LinesWalked(t) == {k \in (t + 2)..cursor : k <= Len(buffer)}

\* a line walked for the candidate declared on line t rejects it: it is
\* neither blank nor a comment and is indented at or below the candidate
Rejected(t) ==
    \E k \in LinesWalked(t) :
        /\ Strip(buffer[k])
        /\ ~IsComment(buffer[k])
        /\ Indentation(buffer[k]) <= TAGS[call.buffer_number][t].indent_level

\* C20: find_tag tries the candidates from the nearest declaration at or
\* above the cursor backward through tag_line_numbers, rejects exactly
\* those with a rejecting line among the lines walked, and resolves to the
\* first one not rejected, or to no tag when all are rejected.
C20_FirstCandidateNotRejected ==
    call.op = "find_tag" =>
        LET accepted == {t \in DeclarationsAbove : ~Rejected(t)}
            last     == IF accepted = {} THEN 0
                        ELSE CHOOSE t \in accepted : \A u \in accepted : u <= t
        IN  /\ resolution.raised = None
            /\ resolution.nearest_line_number = IF accepted = {} THEN -1 ELSE last
            /\ Range(resolution.tried) = {t \in DeclarationsAbove : t >= last}
            /\ \A i \in 1..(Len(resolution.tried) - 1) :
                   resolution.tried[i] > resolution.tried[i + 1]
            /\ PHStatusLine = Description(TAGS[call.buffer_number],
                                          resolution.nearest_line_number)

\* the stack of open tags SimplePythonTagsParser holds after the cursor
\* line (the last line when the cursor row is beyond it)
OpenAtCursor ==
    ScanFrom(ScanStart, buffer,
             IF cursor <= Len(buffer) THEN cursor ELSE Len(buffer)).tags_stack

\* the indent_level of the i-th candidate the last find_tag call tried
TriedIndent(i) == TAGS[call.buffer_number][resolution.tried[i]].indent_level

\* C21 as stated, for a cursor row that is a line of the buffer: in a
\* resolution by find_tag every retry moves to a candidate of strictly
\* smaller indent_level, at most as many candidates are tried as tags are
\* open at the cursor line, and the resolution ends with one tag or with
\* none.
C21_RetriesStrictlyShallower ==
    (call.op = "find_tag" /\ cursor <= Len(buffer)) =>
        /\ \A i \in 1..(Len(resolution.tried) - 1) :
               TriedIndent(i + 1) < TriedIndent(i)
        /\ Len(resolution.tried) <= Len(OpenAtCursor)
        /\ resolution.raised = None
        /\ \/ resolution.nearest_line_number = -1
           \/ resolution.nearest_line_number \in DOMAIN TAGS[call.buffer_number]

\* C21 amended: every retry moves to the entry of tag_line_numbers right
\* before the candidate just rejected, whatever its indent_level, so at
\* most as many candidates are tried as declarations are at or above the
\* cursor row; the resolution ends with the last candidate tried, with no
\* tag after the first entry was rejected, or, only for a cursor row beyond
\* the last line of the buffer, with the IndexError find_tag reports.
C21_RetriesPreviousEntry ==
    call.op = "find_tag" =>
        LET tln   == TAGLINENUMBERS[call.buffer_number]
            tried == resolution.tried
            first == get_nearest_line_index(cursor, tln) + 1
        IN  /\ \A i \in 1..Len(tried) :
                   first - i + 1 >= 1 /\ tried[i] = tln[first - i + 1]
            /\ Len(tried) <= Cardinality(DeclarationsAbove)
            /\ \/ /\ resolution.raised = None
                  /\ tried # <<>>
                  /\ resolution.nearest_line_number = tried[Len(tried)]
               \/ /\ resolution.raised = None
                  /\ Len(tried) = first
                  /\ resolution.nearest_line_number = -1
               \/ /\ resolution.raised = "IndexError"
                  /\ cursor > Len(buffer)

\* a retry moved to a candidate that is not indented less than the one
\* just rejected, and more candidates were tried than tags are open at the
\* cursor line, which is a line of the buffer
C21_Witness ==
    /\ call.op = "find_tag"
    /\ cursor <= Len(buffer)
    /\ Len(resolution.tried) >= 2
    /\ TriedIndent(2) >= TriedIndent(1)
    /\ Len(resolution.tried) > Len(OpenAtCursor)
    /\ resolution.raised = None

-----------------------------------------------------------------------------
(* Further properties of the tag caches (SpecCache) *)

\* what dict d holds under key k: <<d[k]>>, or <<>> when k is no key of d
Entry(d, k) == IF k \in DOMAIN d THEN <<d[k]>> ELSE <<>>

\* C22: a get_tags(b, c) or delete_tags(b) call leaves what TAGS,
\* TAGLINENUMBERS and BUFFERTICKS hold, or do not hold, for every other
\* buffer number as it was, and a get_tags call that does not run the
\* parser leaves the three dicts as they were.
C22_OtherBuffersUntouched ==
    [][\A b \in Buffers :
          (call'.op \in {"get_tags", "delete_tags"} /\ call'.buffer_number = b) =>
              /\ \A o \in Buffers \ {b} :
                     /\ Entry(TAGS', o) = Entry(TAGS, o)
                     /\ Entry(TAGLINENUMBERS', o) = Entry(TAGLINENUMBERS, o)
                     /\ Entry(BUFFERTICKS', o) = Entry(BUFFERTICKS, o)
              /\ (call'.op = "get_tags" /\ ~call'.rescanned) =>
                     UNCHANGED pluginVars]_vars

\* delete_tags has removed the entry of one buffer number while another
\* buffer number keeps entries built from a different buffer content
C22_Witness ==
    /\ call.op = "delete_tags"
    /\ call.stored # {}
    /\ call.buffer_number \notin DOMAIN TAGS
    /\ \E o \in DOMAIN TAGS :
           /\ o # call.buffer_number
           /\ <<TAGLINENUMBERS[o], TAGS[o]>> # SimplePythonTagsParser_get_tags(buffer)

\* C24: after any sequence of get_tags and delete_tags calls, TAGS,
\* TAGLINENUMBERS and BUFFERTICKS have the same keys, and for every key b
\* TAGLINENUMBERS[b] is the increasing list of the keys of TAGS[b].
C24_CacheDictsAgree ==
    /\ DOMAIN TAGS = DOMAIN TAGLINENUMBERS
    /\ DOMAIN TAGS = DOMAIN BUFFERTICKS
    /\ \A b \in DOMAIN TAGS :
           /\ Range(TAGLINENUMBERS[b]) = DOMAIN TAGS[b]
           /\ Len(TAGLINENUMBERS[b]) = Cardinality(DOMAIN TAGS[b])
           /\ \A i \in 1..(Len(TAGLINENUMBERS[b]) - 1) :
                  TAGLINENUMBERS[b][i] < TAGLINENUMBERS[b][i + 1]

\* two buffer numbers hold entries built from different contents, the
\* latest rebuilt by get_tags right after delete_tags had removed it
C24_Witness ==
    /\ call.op = "get_tags"
    /\ call.after \in {"evicted", "evicted same tick"}
    /\ Cardinality(DOMAIN TAGS) = 2
    /\ \E b, o \in DOMAIN TAGS :
           /\ TAGS[b] # TAGS[o]
           /\ Len(TAGLINENUMBERS[b]) = 2

-----------------------------------------------------------------------------
(* Properties of the buffer subscripts of both resolvers (SpecResolve) *)

\* the outcome of the backward skip over blank lines PythonHelper._get_tag
\* starts with
CursorLineUsed == SkipBlank(buffer, cursor - 1)

\* C23: the validation walk of find_tag subscripts the buffer only with
\* indices in [0, len) and raises nothing, and the line the backward skip
\* of PythonHelper._get_tag ends on has an index in [0, len) and is at or
\* above the cursor line.
C23_SubscriptsStayInBuffer ==
    /\ call.op = "find_tag" =>
           /\ resolution.raised = None
           /\ resolution.indexed \subseteq 0..(Len(buffer) - 1)
    /\ (call.op = "PythonHelper._get_tag" /\ CursorLineUsed.raised = None) =>
           /\ 0 <= CursorLineUsed.line_number
           /\ CursorLineUsed.line_number < Len(buffer)
           /\ CursorLineUsed.line_number <= cursor - 1

\* C25: a tag PythonHelper._get_tag returns that is not declared on the
\* line used as cursor line has an indent_level strictly less than the
\* indentation of that line.
C25_ReturnedTagIsShallower ==
    (call.op = "PythonHelper._get_tag" /\ call.ret # NoTag) =>
        LET used == CursorLineUsed.line_number
        IN  call.ret.line_number # used =>
                call.ret.indent_level <
                    get_indent_level(buffer[Position(buffer, used)])

=============================================================================
